---- MODULE Spec2Model ----
(***************************************************************************)
(* A model of snapshotter/snapshotter.py: the snapshot() orchestration,    *)
(* the commands it builds, and the destination file system they act on.    *)
(*                                                                         *)
(* Strings are sequences of tokens: "/", ":" and "@" are tokens of their   *)
(* own, every other token is an opaque piece of text.  A command is a      *)
(* sequence of strings (an argument vector), as in the source.             *)
(***************************************************************************)
EXTENDS Integers, Sequences, FiniteSets, TLC

(* ------------------------------ bounds --------------------------------- *)

\* Timestamps are 1..MaxTime; a snapshot directory is named after one.
MaxTime == 3
\* min_snapshots ranges over -1..MaxMin (argparse type=int takes any integer).
MaxMin == 2
\* Cap on the number of transfer attempts of one run.
MaxAttempts == 3

(* ------------------------------- state --------------------------------- *)

VARIABLES
    source,         \* snapshot() argument
    dest,           \* snapshot() argument
    debug,          \* snapshot() argument
    min_snapshots,  \* snapshot() argument
    extra_args,     \* snapshot() argument
    date,           \* the timestamp _datetime() returned at line 379
    now,            \* the timestamp _datetime() would return if called now
    pc,             \* where snapshot() is: "rsync", "evict", "mv", "rmlink",
                    \* "ln", "done" (returned) or "raised" (an exception left it)
    err,            \* the exception that left snapshot(), "none" if none
    calls,          \* the calls of _run() so far: argument vector and debug
    results,        \* the outcome of each transfer attempt, in order
    lists,          \* what each call of _ls_snapshots() returned, in order
    fs,             \* the directory at snapshots_root on each machine
    fs0,            \* fs when the run began
    run,            \* 1 in the first call of snapshot(), 2 in a second one
    first,          \* in a second call: what the first one did
    entries,        \* the entries of a directory that is listed name by
                    \* name: name (a sequence of characters) and isdir
    peer            \* another call of snapshot() running at the same time
                    \* on the same arguments: its pc, err, date, calls,
                    \* results and lists (pc "none" when there is none)

vars ==
    <<source, dest, debug, min_snapshots, extra_args, date, now, pc, err,
      calls, results, lists, fs, fs0, run, first, entries, peer>>

\* what a call of snapshot() leaves as it is
inputs ==
    <<source, dest, debug, min_snapshots, extra_args, date, fs0, run, first,
      entries, peer>>

(* ------------------------------ strings -------------------------------- *)

sep == "/"

Last(s) == s[Len(s)]

\* str.endswith(suffix) for a one-token suffix
EndsWith(s, tok) == Len(s) > 0 /\ Last(s) = tok

\* index of the first occurrence of tok in s, 0 if there is none
RECURSIVE IndexFrom(_, _, _)
IndexFrom(s, tok, i) ==
    IF i > Len(s) THEN 0
    ELSE IF s[i] = tok THEN i
    ELSE IndexFrom(s, tok, i + 1)

IndexOf(s, tok) == IndexFrom(s, tok, 1)

Contains(s, tok) == IndexOf(s, tok) # 0

\* index of the last occurrence of tok in s, 0 if there is none
RECURSIVE LastIndexFrom(_, _, _)
LastIndexFrom(s, tok, i) ==
    IF i < 1 THEN 0
    ELSE IF s[i] = tok THEN i
    ELSE LastIndexFrom(s, tok, i - 1)

LastIndexOf(s, tok) == LastIndexFrom(s, tok, Len(s))

\* s.split(tok)[0]
SplitFirst(s, tok) ==
    IF Contains(s, tok) THEN SubSeq(s, 1, IndexOf(s, tok) - 1) ELSE s

\* s.split(tok)[-1]
SplitLast(s, tok) ==
    IF Contains(s, tok) THEN SubSeq(s, LastIndexOf(s, tok) + 1, Len(s)) ELSE s

\* s.split(tok, 1)[1]
AfterFirst(s, tok) == SubSeq(s, IndexOf(s, tok) + 1, Len(s))

\* os.path.join(a, b) for a relative b
PathJoin(a, b) ==
    IF Len(a) = 0 \/ EndsWith(a, sep) THEN a \o b ELSE a \o <<sep>> \o b

\* the process's working directory and the user's home directory
Cwd == <<sep, "cwd">>
Home == <<sep, "home">>

\* os.path.expanduser(path)
ExpandUser(path) ==
    IF Len(path) > 0 /\ path[1] = "~" /\ (Len(path) = 1 \/ path[2] = sep)
    THEN Home \o Tail(path)
    ELSE path

\* strip trailing separators, keeping a lone "/"
RECURSIVE StripTrailingSep(_)
StripTrailingSep(path) ==
    IF Len(path) > 1 /\ EndsWith(path, sep)
    THEN StripTrailingSep(SubSeq(path, 1, Len(path) - 1))
    ELSE path

\* os.path.abspath(path)
AbsPath(path) ==
    IF Len(path) > 0 /\ path[1] = sep
    THEN StripTrailingSep(path)
    ELSE StripTrailingSep(PathJoin(Cwd, path))

(* --------------------------- path classifier --------------------------- *)

None == <<"None">>

_is_remote(path) == Contains(SplitFirst(path, sep), ":")

_parse_path(path) ==
    IF _is_remote(path)
    THEN LET before_first_colon == SplitFirst(path, ":")
             after_first_colon == AfterFirst(path, ":")
         IN  [user |-> IF Contains(before_first_colon, "@")
                       THEN SplitFirst(before_first_colon, "@")
                       ELSE None,
              host |-> SplitLast(before_first_colon, "@"),
              path |-> after_first_colon]
    ELSE [user |-> None, host |-> None, path |-> AbsPath(ExpandUser(path))]

(* --------------------------- command builders -------------------------- *)

\* the fixed flags without --link-dest
RsyncFixedArgsNoLinkDest ==
    << <<"rsync">>, <<"--archive">>, <<"--partial">>,
       <<"--partial-dir=partially_transferred_files">>,
       <<"--one-file-system">>, <<"--delete">>, <<"--delete-excluded">>,
       <<"--itemize-changes">>,
       <<"--human-readable">>, <<"--quiet">>, <<"--compress">>,
       <<"--fuzzy">> >>

\* the fixed flags of the transfer command, in the order of the source
RsyncFixedArgs ==
    << <<"rsync">>, <<"--archive">>, <<"--partial">>,
       <<"--partial-dir=partially_transferred_files">>,
       <<"--one-file-system">>, <<"--delete">>, <<"--delete-excluded">>,
       <<"--itemize-changes">>,
       <<"--link-dest=", "../latest.snapshot">>,
       <<"--human-readable">>, <<"--quiet">>, <<"--compress">>,
       <<"--fuzzy">> >>

\* _rsync() putting --dry-run before the extra flags
RsyncCmdDryRunFirst(src, dst, dbg, extra) ==
    LET source1 == IF EndsWith(src, sep) THEN src ELSE src \o <<sep>>
        p == _parse_path(dst)
        prefix == IF p.host # None
                  THEN (IF p.user # None THEN p.user \o <<"@">> ELSE <<>>)
                       \o p.host \o <<":">>
                  ELSE <<>>
        dest1 == prefix \o PathJoin(p.path, <<"incomplete.snapshot">>)
    IN  RsyncFixedArgs
          \o (IF dbg THEN << <<"--dry-run">> >> ELSE <<>>)
          \o extra
          \o << source1, dest1 >>

\* _rsync() appending a separator to the source whatever it ends with
RsyncCmdSepAlways(src, dst, dbg, extra) ==
    LET source1 == src \o <<sep>>
        p == _parse_path(dst)
        prefix == IF p.host # None
                  THEN (IF p.user # None THEN p.user \o <<"@">> ELSE <<>>)
                       \o p.host \o <<":">>
                  ELSE <<>>
        dest1 == prefix \o PathJoin(p.path, <<"incomplete.snapshot">>)
    IN  RsyncFixedArgs \o extra
          \o (IF dbg THEN << <<"--dry-run">> >> ELSE <<>>)
          \o << source1, dest1 >>

\* _rsync() leaving the user out of the destination
RsyncCmdNoUser(src, dst, dbg, extra) ==
    LET source1 == IF EndsWith(src, sep) THEN src ELSE src \o <<sep>>
        p == _parse_path(dst)
        prefix == IF p.host # None THEN p.host \o <<":">> ELSE <<>>
        dest1 == prefix \o PathJoin(p.path, <<"incomplete.snapshot">>)
    IN  RsyncFixedArgs \o extra
          \o (IF dbg THEN << <<"--dry-run">> >> ELSE <<>>)
          \o << source1, dest1 >>

\* the argument vector _rsync() hands to _run()
RsyncCmd(src, dst, dbg, extra) ==
    LET source1 == IF EndsWith(src, sep) THEN src ELSE src \o <<sep>>
        p == _parse_path(dst)
        prefix == IF p.host # None
                  THEN (IF p.user # None THEN p.user \o <<"@">> ELSE <<>>)
                       \o p.host \o <<":">>
                  ELSE <<>>
        dest1 == prefix \o PathJoin(p.path, <<"incomplete.snapshot">>)
    IN  RsyncFixedArgs \o extra
          \o (IF dbg THEN << <<"--dry-run">> >> ELSE <<>>)
          \o << source1, dest1 >>

\* "not host" in Python: None and the empty string are both false
Falsy(x) == x = None \/ x = <<>>

_wrap_in_ssh(command, user, host) ==
    IF Falsy(host) THEN command
    ELSE << <<"ssh">>,
            (IF user # None THEN user \o <<"@">> ELSE <<>>) \o host >>
         \o command

\* the name of the snapshot directory of timestamp t
SnapshotName(t) == <<ToString(t), ".snapshot">>

\* _move_incomplete_dir() naming the snapshot after the time of the move
MvCmdNow(snapshots_root, t, user, host) ==
    _wrap_in_ssh(<< <<"mv">>,
                    PathJoin(snapshots_root, <<"incomplete.snapshot">>),
                    PathJoin(snapshots_root, SnapshotName(now)) >>, user, host)

\* the argument vector _move_incomplete_dir() hands to _run()
MvCmd(snapshots_root, t, user, host) ==
    _wrap_in_ssh(<< <<"mv">>,
                    PathJoin(snapshots_root, <<"incomplete.snapshot">>),
                    PathJoin(snapshots_root, SnapshotName(t)) >>, user, host)

\* the argument vector _rm() hands to _run()
RmCmd(path, user, host, directory) ==
    _wrap_in_ssh((IF directory THEN << <<"rm">>, <<"-r">>, <<"-f">>, path >>
                  ELSE << <<"rm">>, <<"-f">>, path >>), user, host)

\* the argument vector _ln() hands to _run()
LnCmd(target, link_path, user, host) ==
    _wrap_in_ssh(<< <<"ln">>, <<"-s">>, target, link_path >>, user, host)

(* --------------------------- the process runner ------------------------ *)

\* exit codes a failing command may return; 11 is the one _rsync() looks at
ExitCodes == {11, 23}

\* What running a command as a subprocess can do: exit 0, exit non-zero
\* (nospace: the captured output contains "No space left on device"),
\* fail to start with errno 2, or fail to start with another errno.
RunOutcomes ==
    {[kind |-> k, code |-> 0, nospace |-> FALSE] :
        k \in {"ok", "enoent", "oserror"}}
    \cup {[kind |-> "exit", code |-> c, nospace |-> b] :
            c \in ExitCodes, b \in BOOLEAN}

\* the exception _run(command, debug=False) raises, "none" if it returns
RunError(o) ==
    CASE o.kind = "ok" -> "none"
      [] o.kind = "exit" -> "CalledProcessError"
      [] o.kind = "enoent" -> "NoSuchCommandError"
      [] OTHER -> "OSError"

\* _rsync() swallowing every CalledProcessError
RsyncErrorSwallowed(o) ==
    IF o.kind = "exit" THEN "none" ELSE RunError(o)

\* line 143 looking at the captured output only
RsyncErrorMessageOnly(o) ==
    IF o.kind = "exit" /\ o.nospace
    THEN "NoSpaceLeftOnDeviceError"
    ELSE RunError(o)

\* line 143 looking at the exit code only
RsyncErrorCodeOnly(o) ==
    IF o.kind = "exit" /\ o.code = 11
    THEN "NoSpaceLeftOnDeviceError"
    ELSE RunError(o)

\* the exception _rsync() raises, "none" if it returns
RsyncError(o) ==
    IF o.kind = "exit" /\ o.code = 11 /\ o.nospace
    THEN "NoSpaceLeftOnDeviceError"
    ELSE RunError(o)

(* ------------------------- the file systems ---------------------------- *)

\* The machine snapshotter runs on and the machine a remote destination
\* names.  On each, one directory matters: the one at the path
\* snapshots_root.  Its state:
\*   exists   the directory exists
\*   snaps    timestamps t with a directory t.snapshot in it
\*   made     the t.snapshot directories created by renaming the staging
\*            directory of this run
\*   nested   the t.snapshot directories that a staging directory was
\*            moved into (mv onto an existing directory)
\*   staging  incomplete.snapshot: "absent", "partial" (this run's
\*            interrupted transfer) or "complete" (this run's finished
\*            transfer)
\*   latest   the timestamp latest.snapshot links to, 0 if there is no link
\*   last     the timestamp of the t.snapshot directory that a staging
\*            directory was moved to most recently, 0 if none was yet
Machines == {"local", "remote"}

Stamps == 1..MaxTime

NoDir ==
    [exists |-> FALSE, snaps |-> {}, made |-> {}, nested |-> {},
     staging |-> "absent", latest |-> 0, last |-> 0]

\* the states a destination directory can be in before a run: any set of
\* snapshots, no staging directory, and latest.snapshot absent or linking
\* to a snapshot (Init makes it the newest one)
DestDirs ==
    {[exists |-> TRUE, snaps |-> s, made |-> {}, nested |-> {},
      staging |-> "absent", latest |-> l, last |-> 0] :
        s \in SUBSET Stamps, l \in 0..MaxTime}

\* the states of a directory that is only ever listed: missing, empty, or
\* holding a snapshot of every timestamp
ListedDirs ==
    {NoDir} \cup
    {[exists |-> TRUE, snaps |-> s, made |-> {}, nested |-> {},
      staging |-> "absent", latest |-> 0, last |-> 0] :
        s \in {{}, Stamps}}

\* the machine a command runs against: ssh commands run on the remote one
MachineOf(argv) == IF argv[1] = <<"ssh">> THEN "remote" ELSE "local"

\* the command without its ssh prefix
Strip(argv) ==
    IF argv[1] = <<"ssh">> THEN SubSeq(argv, 3, Len(argv)) ELSE argv

\* os.path.basename
BaseName(path) == SplitLast(path, sep)

\* the timestamp a snapshot directory name carries, 0 if it is not one
StampOfName(name) ==
    IF \E t \in Stamps : SnapshotName(t) = name
    THEN CHOOSE t \in Stamps : SnapshotName(t) = name
    ELSE 0

\* a successful transfer: rsync writes into the staging directory of the
\* machine its last argument names, unless it is a dry run
RsyncEffect(argv, o, f) ==
    LET m == IF _is_remote(Last(argv)) THEN "remote" ELSE "local"
    IN  IF Contains(argv, <<"--dry-run">>) \/ o.kind \in {"enoent", "oserror"}
        THEN f
        ELSE [f EXCEPT ![m].staging =
                 IF o.kind = "ok" THEN "complete" ELSE "partial"]

\* mv SRC DEST: a rename, or a move into DEST when DEST is a directory
MvEffect(argv, f) ==
    LET m == MachineOf(argv)
        t == StampOfName(BaseName(Strip(argv)[3]))
    IN  IF t \in f[m].snaps
        THEN [f EXCEPT ![m].nested = @ \cup {t}, ![m].staging = "absent",
                       ![m].last = t]
        ELSE [f EXCEPT ![m].snaps = @ \cup {t}, ![m].made = @ \cup {t},
                       ![m].staging = "absent", ![m].last = t]

\* rm [-r] -f PATH
RmEffect(argv, f) ==
    LET m == MachineOf(argv)
        name == BaseName(Last(Strip(argv)))
    IN  IF name = <<"latest.snapshot">>
        THEN [f EXCEPT ![m].latest = 0]
        ELSE IF Contains(Strip(argv), <<"-r">>)
        THEN [f EXCEPT ![m].snaps = @ \ {StampOfName(name)},
                       ![m].made = @ \ {StampOfName(name)},
                       ![m].nested = @ \ {StampOfName(name)}]
        ELSE f

\* ln -s TARGET LINK
LnEffect(argv, f) ==
    LET m == MachineOf(argv)
        c == Strip(argv)
    IN  IF BaseName(c[4]) = <<"latest.snapshot">> /\ f[m].latest = 0
        THEN [f EXCEPT ![m].latest = StampOfName(c[3])]
        ELSE f

(* --------------------------- snapshot lister --------------------------- *)

\* the elements of a set of timestamps, ascending
RECURSIVE SortedSeq(_)
SortedSeq(S) ==
    IF S = {} THEN <<>>
    ELSE LET lo == CHOOSE x \in S : \A y \in S : x <= y
         IN  <<lo>> \o SortedSeq(S \ {lo})

\* _ls_snapshots(dest): os.listdir() reads the directory at that path on
\* the machine snapshotter runs on; ok is FALSE when it raises OSError
_ls_snapshots(root, f) ==
    IF ~f["local"].exists
    THEN [ok |-> FALSE, list |-> <<>>]
    ELSE [ok |-> TRUE,
          list |-> [i \in 1..Cardinality(f["local"].snaps) |->
                       PathJoin(root,
                                SnapshotName(SortedSeq(f["local"].snaps)[i]))]]

(* ------------------------------ the run -------------------------------- *)

\* the inputs of snapshot(); a run keeps them as they are
Sources == { <<sep, "src">> }

Dests ==
    { <<sep, "bk">>,
      <<"user", "@", "host", ":", sep, "bk">> }

ExtraArgs == { <<>> }

MinValues == (0 - 1)..MaxMin

\* the newest of a set of timestamps, 0 if there is none
Newest(S) == IF S = {} THEN 0 ELSE CHOOSE x \in S : \A y \in S : y <= x

\* the destination specifier names another machine
Remote(d) == _parse_path(d).host # None

\* the machine the destination is on
DestMachine == IF Remote(dest) THEN "remote" ELSE "local"

\* no other call of snapshot() is running
NoPeer ==
    [pc |-> "none", err |-> "none", date |-> 0, calls |-> <<>>,
     results |-> <<>>, lists |-> <<>>]

\* what is known of an earlier call of snapshot(): its timestamp, whether
\* its first transfer attempt succeeded and whether its mv created the
\* directory of its timestamp
NoRun == [date |-> 0, clean |-> FALSE, fresh |-> FALSE]

\* snapshot(), lines 379-380: the timestamp is taken and dest is parsed
Init ==
    /\ source \in Sources
    /\ dest \in Dests
    /\ debug \in BOOLEAN
    /\ min_snapshots \in MinValues
    /\ extra_args \in ExtraArgs
    /\ date \in Stamps
    /\ now = date
    /\ pc = "rsync"
    /\ err = "none"
    /\ calls = <<>>
    /\ results = <<>>
    /\ lists = <<>>
    /\ fs \in [Machines -> DestDirs \cup ListedDirs]
    /\ IF Remote(dest)
       THEN fs["remote"] \in DestDirs /\ fs["local"] \in ListedDirs
       ELSE fs["local"] \in DestDirs /\ fs["remote"] = NoDir
    /\ fs[DestMachine].latest \in {0, Newest(fs[DestMachine].snaps)}
    /\ fs0 = fs
    /\ run = 1
    /\ first = NoRun
    /\ entries = {}
    /\ peer = NoPeer

\* one _run() call
Call(argv, dbg) == [argv |-> argv, debug |-> dbg]

\* snapshot(), lines 382-386: one transfer attempt; _rsync() always runs
\* its command, whatever debug is.  The transfer takes time: the clock may
\* have moved on when it ends.
Rsync(o) ==
    /\ pc = "rsync"
    /\ Len(results) < MaxAttempts
    /\ LET cmd == RsyncCmd(source, dest, debug, extra_args)
           e == RsyncError(o)
       IN  /\ calls' = Append(calls, Call(cmd, FALSE))
           /\ results' = Append(results, o)
           /\ fs' = RsyncEffect(cmd, o, fs)
           /\ pc' = CASE e = "none" -> "mv"
                      [] e = "NoSpaceLeftOnDeviceError" -> "evict"
                      [] OTHER -> "raised"
           /\ err' = IF e \in {"none", "NoSpaceLeftOnDeviceError"}
                     THEN err ELSE e
    /\ now' \in {now, IF now < MaxTime THEN now + 1 ELSE now}
    /\ UNCHANGED <<inputs, lists>>

\* line 329 giving up only when no snapshot is left
TooFewNone(snapshots, min) == Len(snapshots) = 0

\* line 329 with < for <=
TooFewStrict(snapshots, min) == Len(snapshots) < min

\* _remove_oldest_snapshot(), line 329: there is nothing to remove
TooFew(snapshots, min) == Len(snapshots) <= min

\* snapshot(), lines 387-389: _remove_oldest_snapshot()
Evict(o) ==
    /\ pc = "evict"
    /\ LET p == _parse_path(dest)
           ls == _ls_snapshots(p.path, fs)
           snapshots == ls.list
           cmd == RmCmd(snapshots[1], p.user, p.host, TRUE)
       IN  IF ~ls.ok
           THEN /\ pc' = "raised" /\ err' = "OSError"
                /\ UNCHANGED <<calls, fs, lists>>
           ELSE /\ lists' = Append(lists, snapshots)
                /\ IF TooFew(snapshots, min_snapshots)
                   THEN /\ pc' = "raised"
                        /\ err' = "NoMoreSnapshotsToRemoveError"
                        /\ UNCHANGED <<calls, fs>>
                   ELSE IF Len(snapshots) = 0
                   THEN /\ pc' = "raised" /\ err' = "IndexError"
                        /\ UNCHANGED <<calls, fs>>
                   ELSE /\ calls' = Append(calls, Call(cmd, debug))
                        /\ IF debug
                           THEN /\ pc' = "rsync"
                                /\ UNCHANGED <<err, fs>>
                           ELSE /\ fs' = IF o.kind = "ok"
                                         THEN RmEffect(cmd, fs) ELSE fs
                                /\ pc' = IF o.kind = "ok"
                                         THEN "rsync" ELSE "raised"
                                /\ err' = IF o.kind = "ok"
                                          THEN err ELSE RunError(o)
    /\ UNCHANGED <<inputs, now, results>>

\* a step that consists of one _run(cmd, debug=debug) call and goes to next
RunStep(cmd, effect, o, next) ==
    /\ calls' = Append(calls, Call(cmd, debug))
    /\ IF debug
       THEN /\ pc' = next
            /\ UNCHANGED <<err, fs>>
       ELSE /\ fs' = IF o.kind = "ok" THEN effect ELSE fs
            /\ pc' = IF o.kind = "ok" THEN next ELSE "raised"
            /\ err' = IF o.kind = "ok" THEN err ELSE RunError(o)
    /\ UNCHANGED <<inputs, now, results, lists>>

\* snapshot(), line 390: _move_incomplete_dir(); mv cannot succeed when
\* there is no incomplete.snapshot on the machine it runs on
Mv(o) ==
    /\ pc = "mv"
    /\ LET p == _parse_path(dest)
           cmd == MvCmd(p.path, date, p.user, p.host)
       IN  /\ (~debug /\ fs[MachineOf(cmd)].staging = "absent") =>
                  o.kind # "ok"
           /\ RunStep(cmd, MvEffect(cmd, fs), o, "rmlink")

\* _update_latest_symlink() without its _rm() call
RmLinkSkipped(o) ==
    /\ pc = "rmlink"
    /\ pc' = "ln"
    /\ UNCHANGED <<inputs, now, err, calls, results, lists, fs>>

\* snapshot(), line 391: _update_latest_symlink(), its _rm() call
RmLink(o) ==
    /\ pc = "rmlink"
    /\ LET p == _parse_path(dest)
           cmd == RmCmd(PathJoin(p.path, <<"latest.snapshot">>),
                        p.user, p.host, FALSE)
       IN  RunStep(cmd, RmEffect(cmd, fs), o, "ln")

\* _update_latest_symlink() linking to the full path of the snapshot
LnFullPath(o) ==
    /\ pc = "ln"
    /\ LET p == _parse_path(dest)
           cmd == LnCmd(PathJoin(p.path, SnapshotName(date)),
                        PathJoin(p.path, <<"latest.snapshot">>),
                        p.user, p.host)
       IN  RunStep(cmd, LnEffect(cmd, fs), o, "done")

\* snapshot(), line 391: _update_latest_symlink(), its _ln() call
Ln(o) ==
    /\ pc = "ln"
    /\ LET p == _parse_path(dest)
           cmd == LnCmd(SnapshotName(date),
                        PathJoin(p.path, <<"latest.snapshot">>),
                        p.user, p.host)
       IN  RunStep(cmd, LnEffect(cmd, fs), o, "done")

Next ==
    \E o \in RunOutcomes :
        \/ Rsync(o)
        \/ Evict(o)
        \/ Mv(o)
        \/ RmLink(o)
        \/ Ln(o)

Spec == Init /\ [][Next]_vars

(* --------------------------- two runs in a row ------------------------- *)

\* snapshot() has returned and is called again with the same arguments,
\* at once or later: lines 379-380 of the second call
Again ==
    /\ pc = "done"
    /\ run = 1
    /\ run' = 2
    /\ first' = [date |-> date,
                 clean |-> results = << [kind |-> "ok", code |-> 0,
                                         nospace |-> FALSE] >>,
                 fresh |-> date \in fs[DestMachine].made]
    /\ now' \in {now, IF now < MaxTime THEN now + 1 ELSE now}
    /\ date' = now'
    /\ pc' = "rsync"
    /\ calls' = <<>>
    /\ results' = <<>>
    /\ lists' = <<>>
    /\ fs' = [m \in Machines |-> [fs[m] EXCEPT !.made = {}, !.nested = {}]]
    /\ fs0' = fs'
    /\ UNCHANGED <<source, dest, debug, min_snapshots, extra_args, err,
                   entries, peer>>

NextTwice == Next \/ Again

\* the first of the two calls makes the first snapshot of the destination,
\* with debug false
InitTwice ==
    /\ Init
    /\ ~debug
    /\ fs[DestMachine].snaps = {}

SpecTwice == InitTwice /\ [][NextTwice]_vars

(* -------------------------- two runs at a time ------------------------- *)

\* The scheduler turns to the other of two calls of snapshot() that run at
\* the same time: the steps that follow are that call's.  The file
\* systems and the clock are shared.
Switch ==
    /\ peer.pc # "none"
    /\ pc' = peer.pc
    /\ err' = peer.err
    /\ date' = peer.date
    /\ calls' = peer.calls
    /\ results' = peer.results
    /\ lists' = peer.lists
    /\ peer' = [pc |-> pc, err |-> err, date |-> date, calls |-> calls,
                results |-> results, lists |-> lists]
    /\ UNCHANGED <<source, dest, debug, min_snapshots, extra_args, now, fs,
                   fs0, run, first, entries>>

\* one step of the call the scheduler is at, leaving the other as it is
NextPair ==
    \/ \E o \in RunOutcomes :
          \/ Rsync(o)
          \/ Evict(o)
          \/ Mv(o)
          \/ RmLink(o)
          \/ Ln(o)
    \/ Switch

\* two calls of snapshot() with debug false on one local destination that
\* holds at most the snapshot 1; each has taken its timestamp and neither
\* has run a command yet
InitPair ==
    /\ source \in Sources
    /\ dest = <<sep, "bk">>
    /\ debug = FALSE
    /\ min_snapshots = 0
    /\ extra_args \in ExtraArgs
    /\ date \in Stamps
    /\ now \in Stamps
    /\ pc = "rsync"
    /\ err = "none"
    /\ calls = <<>>
    /\ results = <<>>
    /\ lists = <<>>
    /\ fs \in [Machines -> DestDirs \cup {NoDir}]
    /\ fs["remote"] = NoDir
    /\ fs["local"].snaps \in {{}, {1}}
    /\ fs["local"].latest = Newest(fs["local"].snaps)
    /\ fs0 = fs
    /\ run = 1
    /\ first = NoRun
    /\ entries = {}
    /\ \E d \in Stamps :
          /\ now = (IF d >= date THEN d ELSE date)
          /\ peer = [pc |-> "rsync", err |-> "none", date |-> d,
                     calls |-> <<>>, results |-> <<>>, lists |-> <<>>]

SpecPair == InitPair /\ [][NextPair]_vars

(* ------------------------------- main() -------------------------------- *)

\* _parse_cli(): argparse accepts the arguments and snapshot() is called
\* on them, or it ends with SystemExit, which is raised again as
\* CommandLineArgumentsError
ParseCli(valid) ==
    /\ pc = "cli"
    /\ pc' = IF valid THEN "rsync" ELSE "raised"
    /\ err' = IF valid THEN err ELSE "CommandLineArgumentsError"
    /\ UNCHANGED <<inputs, now, calls, results, lists, fs>>

\* the exceptions the except clause of main() names
Caught ==
    {"CommandLineArgumentsError", "CalledProcessError", "NoSuchCommandError"}

\* the exceptions whose instances have an attribute "output"
HasOutput == {"CalledProcessError"}

\* main(), lines 442-446: snapshot() has returned and main() returns
\* ("exit_ok"); or an exception has come up to main(): a caught one with
\* an output ends the process by sys.exit(err.output), its message printed
\* and the status 1 ("exit_message"); a caught one without it raises
\* AttributeError in the handler, and one not caught goes on up: the
\* process ends with an unhandled exception ("traceback")
MainEnds ==
    /\ pc \in {"done", "raised"}
    /\ pc' = CASE pc = "done" -> "exit_ok"
               [] err \in Caught /\ err \in HasOutput -> "exit_message"
               [] OTHER -> "traceback"
    /\ UNCHANGED <<inputs, now, err, calls, results, lists, fs>>

NextMain ==
    \/ \E valid \in BOOLEAN : ParseCli(valid)
    \/ \E o \in RunOutcomes :
          \/ Rsync(o)
          \/ Evict(o)
          \/ Mv(o)
          \/ RmLink(o)
          \/ Ln(o)
    \/ MainEnds

\* main() called on a command line that names a local destination
InitMain ==
    /\ source \in Sources
    /\ dest = <<sep, "bk">>
    /\ debug \in BOOLEAN
    /\ min_snapshots \in 0..MaxMin
    /\ extra_args \in ExtraArgs
    /\ date \in Stamps
    /\ now = date
    /\ pc = "cli"
    /\ err = "none"
    /\ calls = <<>>
    /\ results = <<>>
    /\ lists = <<>>
    /\ fs \in [Machines -> DestDirs \cup {NoDir}]
    /\ fs["remote"] = NoDir
    /\ fs["local"] \in DestDirs
    /\ fs["local"].snaps \in {{}, {1}, Stamps}
    /\ fs["local"].latest = Newest(fs["local"].snaps)
    /\ fs0 = fs
    /\ run = 1
    /\ first = NoRun
    /\ entries = {}
    /\ peer = NoPeer

SpecMain == InitMain /\ [][NextMain]_vars

(* ---------------------- listing a directory by name -------------------- *)

\* Here names are sequences of characters, so that the pattern of
\* _ls_snapshots() is matched character by character.
Digits == {"0", "1", "2", "3", "4", "5", "6", "7", "8", "9"}

\* one item of the pattern: a digit class, the dot that matches any
\* character, or a literal character
Digit == [kind |-> "digit", ch |-> ""]
AnyChar == [kind |-> "any", ch |-> ""]
Lit(c) == [kind |-> "lit", ch |-> c]

\* the pattern of line 299, {n} repetitions written out
Pattern ==
    <<Digit, Digit, Digit, Digit, Lit("-"), Digit, Digit, Lit("-"),
      Digit, Digit, Lit("T"), Digit, Digit, Lit("_"), Digit, Digit,
      Lit("_"), Digit, Digit, AnyChar,
      Lit("s"), Lit("n"), Lit("a"), Lit("p"), Lit("s"), Lit("h"),
      Lit("o"), Lit("t")>>

ItemMatches(item, c) ==
    CASE item.kind = "digit" -> c \in Digits
      [] item.kind = "any" -> TRUE
      [] OTHER -> c = item.ch

\* re.match(pattern, d): the pattern matches at the start of d; what
\* follows in d is not looked at
ReMatch(pattern, d) ==
    /\ Len(d) >= Len(pattern)
    /\ \A i \in 1..Len(pattern) : ItemMatches(pattern[i], d[i])

\* the code point of a character that occurs in the names
Ord(c) ==
    CASE c = "-" -> 45 [] c = "." -> 46 [] c = "/" -> 47
      [] c = "0" -> 48 [] c = "1" -> 49 [] c = "2" -> 50 [] c = "3" -> 51
      [] c = "4" -> 52 [] c = "5" -> 53 [] c = "6" -> 54 [] c = "7" -> 55
      [] c = "8" -> 56 [] c = "9" -> 57 [] c = "T" -> 84 [] c = "_" -> 95
      [] c = "a" -> 97 [] c = "b" -> 98 [] c = "c" -> 99 [] c = "e" -> 101
      [] c = "h" -> 104 [] c = "i" -> 105 [] c = "k" -> 107
      [] c = "l" -> 108 [] c = "m" -> 109 [] c = "n" -> 110
      [] c = "o" -> 111 [] c = "p" -> 112 [] c = "s" -> 115
      [] c = "t" -> 116 [] c = "x" -> 120

\* a < b for Python strings
RECURSIVE StrLess(_, _)
StrLess(a, b) ==
    IF Len(b) = 0 THEN FALSE
    ELSE IF Len(a) = 0 THEN TRUE
    ELSE IF a[1] = b[1] THEN StrLess(Tail(a), Tail(b))
    ELSE Ord(a[1]) < Ord(b[1])

\* sorted(S) for a set of strings
RECURSIVE SortedStrings(_)
SortedStrings(S) ==
    IF S = {} THEN <<>>
    ELSE LET lo == CHOOSE x \in S : \A y \in S \ {x} : StrLess(x, y)
         IN  <<lo>> \o SortedStrings(S \ {lo})

\* _ls_snapshots(dest) on a directory with the entries es
LsSnapshots(root, es) ==
    SortedStrings({PathJoin(root, e.name) :
                      e \in {x \in es : x.isdir /\ ReMatch(Pattern, x.name)}})

\* names to fill the directory with
Stamp2014 ==
    <<"2", "0", "1", "4", "-", "1", "2", "-", "3", "1", "T",
      "2", "3", "_", "5", "9", "_", "5", "9">>
Stamp2015 ==
    <<"2", "0", "1", "5", "-", "0", "3", "-", "0", "5", "T",
      "1", "6", "_", "3", "5", "_", "1", "2">>
DotSnapshot == <<".", "s", "n", "a", "p", "s", "h", "o", "t">>

\* the entries a listed directory may hold: two snapshot directories, a
\* regular file named like a snapshot, incomplete.snapshot and
\* latest.snapshot (a link to a directory: isdir is true), and
\* directories whose names differ from a snapshot name at the start, in a
\* date field, at the dot and at the end
EntryPool ==
    { [name |-> Stamp2015 \o DotSnapshot, isdir |-> TRUE],
      [name |-> Stamp2014 \o DotSnapshot, isdir |-> TRUE],
      [name |-> <<"2", "0", "1", "6">> \o SubSeq(Stamp2015, 5, 19)
                  \o DotSnapshot, isdir |-> FALSE],
      [name |-> <<"i", "n", "c", "o", "m", "p", "l", "e", "t", "e">>
                  \o DotSnapshot, isdir |-> TRUE],
      [name |-> <<"l", "a", "t", "e", "s", "t">> \o DotSnapshot,
       isdir |-> TRUE],
      [name |-> <<"x">> \o Stamp2015 \o DotSnapshot, isdir |-> TRUE],
      [name |-> <<"2", "0", "1", "x">> \o SubSeq(Stamp2015, 5, 19)
                  \o DotSnapshot, isdir |-> TRUE],
      [name |-> Stamp2015 \o <<"x">> \o Tail(DotSnapshot), isdir |-> TRUE],
      [name |-> Stamp2015 \o DotSnapshot \o <<".", "b", "a", "k">>,
       isdir |-> TRUE] }

LsRoot == <<"/", "b", "k">>

\* a call of _ls_snapshots() on the directory
Ls ==
    /\ pc = "ls"
    /\ lists' = Append(lists, LsSnapshots(LsRoot, entries))
    /\ pc' = "listed"
    /\ UNCHANGED <<inputs, now, err, calls, results, fs>>

\* a directory holding any of the entries, before it is listed
InitLs ==
    /\ source \in Sources
    /\ dest = <<sep, "bk">>
    /\ debug = FALSE
    /\ min_snapshots = 0
    /\ extra_args \in ExtraArgs
    /\ date = 1
    /\ now = 1
    /\ pc = "ls"
    /\ err = "none"
    /\ calls = <<>>
    /\ results = <<>>
    /\ lists = <<>>
    /\ fs = [m \in Machines |-> NoDir]
    /\ fs0 = fs
    /\ run = 1
    /\ first = NoRun
    /\ entries \in SUBSET EntryPool
    /\ peer = NoPeer

SpecLs == InitLs /\ [][Ls]_vars

(* ----------------------- runs on varied arguments ---------------------- *)

\* sources: without and with a trailing separator, the root, remote ones
SourcesCmd ==
    { <<sep, "src">>, <<sep, "src", sep>>, <<sep>>,
      <<"host", ":", "src">>, <<"user", "@", "host", ":", sep, "src", sep>> }

\* destinations: local ones (absolute, relative, under the home directory,
\* with a trailing separator, with a colon after the first separator) and
\* remote ones (with and without user, relative path, empty path, trailing
\* separator, empty host, empty user, two "@")
DestsCmd ==
    { <<sep, "bk">>, <<"bk">>, <<"~", sep, "bk">>, <<sep, "bk", sep>>,
      <<sep, "b", ":", "k">>,
      <<"user", "@", "host", ":", sep, "bk">>,
      <<"host", ":", "bk">>,
      <<"host", ":">>,
      <<"host", ":", sep, "bk", sep>>,
      <<":", sep, "bk">>,
      <<"user", "@", ":", sep, "bk">>,
      <<"@", "host", ":", sep, "bk">>,
      <<"a", "@", "b", "@", "host", ":", sep, "bk">> }

\* extra flags: none, a flag given twice around a --dry-run of the
\* caller's own, a --link-dest of the caller's own
ExtrasCmd ==
    { <<>>,
      << <<"-v">>, <<"--dry-run">>, <<"-v">> >>,
      << <<"--link-dest=", sep, "old">> >> }

\* snapshot() called on any of these, each machine holding one snapshot
\* that latest.snapshot links to
InitCmd ==
    /\ source \in SourcesCmd
    /\ dest \in DestsCmd
    /\ debug \in BOOLEAN
    /\ min_snapshots = 0
    /\ extra_args \in ExtrasCmd
    /\ date \in Stamps
    /\ now = date
    /\ pc = "rsync"
    /\ err = "none"
    /\ calls = <<>>
    /\ results = <<>>
    /\ lists = <<>>
    /\ fs = [m \in Machines |->
                [exists |-> TRUE, snaps |-> {1}, made |-> {}, nested |-> {},
                 staging |-> "absent", latest |-> 1, last |-> 0]]
    /\ fs0 = fs
    /\ run = 1
    /\ first = NoRun
    /\ entries = {}
    /\ peer = NoPeer

SpecCmd == InitCmd /\ [][Next]_vars

(* ------------------------ reading the call log ------------------------- *)

IsExecuted(c) == ~c.debug

\* the commands that were run as subprocesses, in order
Executed == SelectSeq(calls, IsExecuted)

IsRsync(c) == Strip(c.argv)[1] = <<"rsync">>

IsDryRun(c) == Contains(c.argv, <<"--dry-run">>)

\* mv of incomplete.snapshot
IsMv(c) ==
    /\ Strip(c.argv)[1] = <<"mv">>
    /\ BaseName(Strip(c.argv)[2]) = <<"incomplete.snapshot">>

\* the timestamp of the snapshot directory a mv moves to
MvStamp(c) == StampOfName(BaseName(Strip(c.argv)[3]))

\* rm -r -f of a snapshot directory
IsEvictRm(c) ==
    /\ Strip(c.argv)[1] = <<"rm">>
    /\ Strip(c.argv)[2] = <<"-r">>

\* the timestamp of the snapshot directory an eviction removes
EvictStamp(c) == StampOfName(BaseName(Last(c.argv)))

\* rm -f of latest.snapshot
IsLinkRm(c) ==
    /\ Strip(c.argv)[1] = <<"rm">>
    /\ Strip(c.argv)[2] = <<"-f">>
    /\ BaseName(Strip(c.argv)[3]) = <<"latest.snapshot">>

\* ln -s of latest.snapshot
IsLn(c) ==
    /\ Strip(c.argv)[1] = <<"ln">>
    /\ BaseName(Strip(c.argv)[4]) = <<"latest.snapshot">>

\* the timestamp of the snapshot a ln links to
LnStamp(c) == StampOfName(Strip(c.argv)[3])

IsCommit(c) == IsMv(c) \/ IsLinkRm(c) \/ IsLn(c)

\* the number of entries of a sequence that satisfy Test
Count(seq, Test(_)) == Len(SelectSeq(seq, Test))

\* the no-space signature: exit code 11 and the message in the output
NoSpace(o) == o.kind = "exit" /\ o.code = 11 /\ o.nospace

\* the directory at the destination, now and when the run began
Dst == fs[DestMachine]
Dst0 == fs0[DestMachine]

Min(a, b) == IF a <= b THEN a ELSE b

RunErrors == {"CalledProcessError", "NoSuchCommandError", "OSError"}

(* ------------------------------ claims --------------------------------- *)

\* C1: a run with debug false whose first transfer attempt succeeds runs
\* the transfer, the mv of incomplete.snapshot to the timestamped name, the
\* rm of latest.snapshot and the ln of latest.snapshot, in this order and
\* nothing else: at every point of the run the commands run so far are the
\* first ones of that list, as many as the position reached (one before the
\* mv, two before the rm, three before the ln), all four when the run
\* returns, and the run stops short only by the failure of the last one.
C1_FourCommandsInOrder ==
    (~debug /\ Len(results) >= 1 /\ results[1].kind = "ok") =>
        /\ Executed = calls
        /\ Len(calls) \in 1..4
        /\ IsRsync(calls[1]) /\ ~IsDryRun(calls[1])
        /\ Len(calls) >= 2 => IsMv(calls[2]) /\ MvStamp(calls[2]) = date
        /\ Len(calls) >= 3 => IsLinkRm(calls[3])
        /\ Len(calls) >= 4 => IsLn(calls[4]) /\ LnStamp(calls[4]) = date
        /\ pc \in {"mv", "rmlink", "ln", "done", "raised"}
        /\ pc = "mv" => Len(calls) = 1
        /\ pc = "rmlink" => Len(calls) = 2
        /\ pc = "ln" => Len(calls) = 3
        /\ pc = "done" => Len(calls) = 4
        /\ pc = "raised" => Len(calls) >= 2 /\ err \in RunErrors

C1_Witness ==
    /\ ~debug /\ pc = "done"
    /\ Len(results) = 1 /\ results[1].kind = "ok"
    /\ Len(Executed) = 4

\* C2 (as claimed): in a run with debug false whose first K transfer
\* attempts fail with the no-space signature and whose attempt K+1
\* succeeds, with n - K >= min_snapshots for the n snapshots the
\* destination held, there are exactly K+1 transfer attempts and K
\* evictions, one eviction after each failed attempt, and the evictions
\* remove the K oldest snapshots of the destination, oldest first.
C2_Claim_KEvictionsOldestFirst ==
    LET K == Len(results) - 1
        oldest == SortedSeq(Dst0.snaps)
    IN  ( /\ ~debug
          /\ Len(results) >= 1
          /\ results[Len(results)].kind = "ok"
          /\ \A i \in 1..K : NoSpace(results[i])
          /\ Cardinality(Dst0.snaps) - K >= min_snapshots )
        => /\ K <= Len(oldest)
           /\ Count(calls, IsRsync) = K + 1
           /\ Count(calls, IsEvictRm) = K
           /\ Len(calls) >= 2 * K + 1
           /\ IsRsync(calls[2 * K + 1])
           /\ \A i \in 1..K :
                 /\ IsRsync(calls[2 * i - 1])
                 /\ IsEvictRm(calls[2 * i])
                 /\ ~calls[2 * i].debug
                 /\ EvictStamp(calls[2 * i]) = oldest[i]
           /\ pc = "mv" => Dst.snaps = Dst0.snaps \ {oldest[i] : i \in 1..K}

\* C3: when a transfer attempt fails with the no-space signature and the
\* snapshots then listed are min_snapshots or fewer (none included), the
\* run ends with NoMoreSnapshotsToRemoveError; that step removes nothing
\* and runs no command, no transfer attempt follows, and no mv, rm of the
\* link or ln is ever called.
C3_State ==
    (Len(lists) > 0 /\ Len(lists[Len(lists)]) <= min_snapshots) =>
        /\ pc = "raised"
        /\ err = "NoMoreSnapshotsToRemoveError"
        /\ Len(results) = Len(lists)
        /\ NoSpace(results[Len(results)])
        /\ IsRsync(calls[Len(calls)])
        /\ Count(calls, IsEvictRm) = Len(lists) - 1
        /\ Count(calls, IsCommit) = 0

C3_Step ==
    LET ls == _ls_snapshots(_parse_path(dest).path, fs)
    IN  (pc = "evict" /\ ls.ok /\ Len(ls.list) <= min_snapshots) =>
            /\ pc' = "raised"
            /\ err' = "NoMoreSnapshotsToRemoveError"
            /\ fs' = fs
            /\ calls' = calls
            /\ results' = results

C3_TooFewSnapshotsFails == [](C3_State) /\ [][C3_Step]_vars

C3_Witness ==
    /\ ~debug
    /\ pc = "raised"
    /\ err = "NoMoreSnapshotsToRemoveError"
    /\ Len(lists) = 2
    /\ Len(lists[2]) = min_snapshots
    /\ Cardinality(Dst.snaps) = min_snapshots

\* C4 (as claimed): an eviction removes at most one snapshot, and never
\* leaves the destination with min_snapshots snapshots or fewer.
C4_ClaimStep ==
    pc = "evict" =>
        /\ \A m \in Machines : Cardinality(fs[m].snaps \ fs'[m].snaps) <= 1
        /\ fs'[DestMachine].snaps # fs[DestMachine].snaps =>
               Cardinality(fs'[DestMachine].snaps) > min_snapshots

C4_AmendedStep ==
    LET ls == _ls_snapshots(_parse_path(dest).path, fs)
    IN  pc = "evict" =>
            /\ \A m \in Machines :
                  /\ fs'[m].snaps \subseteq fs[m].snaps
                  /\ Cardinality(fs[m].snaps \ fs'[m].snaps) <= 1
            /\ Len(calls') <= Len(calls) + 1
            /\ calls' # calls =>
                  /\ IsEvictRm(calls'[Len(calls')])
                  /\ ls.ok
                  /\ Len(ls.list) - 1 >= min_snapshots
            /\ fs' # fs => calls' # calls
            /\ (fs' # fs /\ DestMachine = "local") =>
                  Cardinality(fs'["local"].snaps) >= min_snapshots

C5_Claim_FloorKept ==
    ~debug =>
        Cardinality(Dst.snaps) >= Min(Cardinality(Dst0.snaps), min_snapshots)

\* C6: a transfer attempt that fails without the no-space signature ends
\* the run at once with that error: it is the last attempt, nothing is
\* listed or evicted after it, no command at all follows it, and no mv, rm
\* of the link or ln is ever called.
C6_OtherFailureAborts ==
    \A i \in 1..Len(results) :
        (results[i].kind # "ok" /\ ~NoSpace(results[i])) =>
            /\ i = Len(results)
            /\ pc = "raised"
            /\ err = RunError(results[i])
            /\ err \in RunErrors
            /\ IsRsync(calls[Len(calls)])
            /\ Count(calls, IsRsync) = i
            /\ Len(lists) = i - 1
            /\ Count(calls, IsEvictRm) = i - 1
            /\ Count(calls, IsCommit) = 0

C6_Witness ==
    /\ pc = "raised"
    /\ Len(results) = 2
    /\ NoSpace(results[1])
    /\ results[2].kind = "exit" /\ results[2].code = 11
    /\ ~results[2].nospace
    /\ Len(lists[1]) > min_snapshots + 1

\* C7 (as claimed): a run with debug false either returns with the
\* directory of its timestamp present and latest.snapshot linking to it,
\* or ends in an error with no snapshot directory added at the destination
\* and latest.snapshot as it was when the run began.
C7_Claim_AllOrNothing ==
    ~debug =>
        /\ pc = "done" => date \in Dst.snaps /\ Dst.latest = date
        /\ pc = "raised" =>
              /\ Dst.snaps \subseteq Dst0.snaps
              /\ Dst.latest = Dst0.latest

\* C8 (as claimed): after a run with debug false has returned,
\* latest.snapshot links to the directory of the run's timestamp, and that
\* directory is the staging directory of this run, renamed: it holds the
\* files of this run's successful transfer.
C8_Claim_LatestIsThisRun ==
    (~debug /\ pc = "done") =>
        /\ Dst.latest = date
        /\ date \in Dst.snaps
        /\ date \in Dst.made

\* C9: the timestamp is taken once, before the first transfer attempt:
\* every mv and every ln the run calls names the snapshot of that
\* timestamp, whatever the number of retries and the time they took; there
\* is at most one mv and one ln, exactly one of each when the run returns,
\* and the run adds at most one snapshot directory, the one of its
\* timestamp.
C9_OneTimestamp ==
    /\ Len(calls) = 0 => date = now
    /\ \A i \in 1..Len(calls) :
          /\ IsMv(calls[i]) => MvStamp(calls[i]) = date
          /\ IsLn(calls[i]) => LnStamp(calls[i]) = date
    /\ Count(calls, IsMv) <= 1
    /\ Count(calls, IsLn) <= 1
    /\ pc = "done" => Count(calls, IsMv) = 1 /\ Count(calls, IsLn) = 1
    /\ Dst.snaps \ Dst0.snaps \subseteq {date}

C9_Witness ==
    /\ ~debug
    /\ pc = "done"
    /\ Len(results) >= 2
    /\ now > date
    /\ Count(calls, IsMv) = 1
    /\ date \in Dst.made
    /\ Dst.latest = date

\* C10 (as claimed): with debug true exactly one command is run, the
\* transfer, with --dry-run; mv, rm and ln are not run, and the snapshots
\* and latest.snapshot stay as they were.
C10_Claim_DryRunOneCommand ==
    debug =>
        /\ Len(Executed) <= 1
        /\ \A i \in 1..Len(Executed) :
              IsRsync(Executed[i]) /\ IsDryRun(Executed[i])
        /\ pc \in {"done", "raised"} => Len(Executed) = 1
        /\ fs = fs0

\* the snapshots _ls_snapshots() found when the run began
Listed0 == _ls_snapshots(_parse_path(dest).path, fs0).list

\* C11 (as claimed): the retry loop terminates.  Each eviction that leads
\* to another transfer attempt removes one of the listed snapshots, so a
\* run in which every transfer attempt fails with the no-space signature
\* makes at most one attempt per snapshot that may be removed, and one
\* more: with n snapshots listed when it began, at most
\* max(0, n - min_snapshots) + 1 attempts, for both values of debug.
C11_Claim_RetryLoopTerminates ==
    (\A i \in 1..Len(results) : NoSpace(results[i])) =>
        Len(results) <=
            (IF Len(Listed0) > min_snapshots
             THEN Len(Listed0) - min_snapshots ELSE 0) + 1

\* C12: a failed transfer attempt leads to the eviction step if and only
\* if its exit code is 11 and its output contains "No space left on
\* device"; exit code 11 with other output and any other non-zero exit
\* code, whatever its output, end the run with CalledProcessError.  The
\* no-space error stays inside the retry loop: no run ends with it.
C12_State ==
    /\ err # "NoSpaceLeftOnDeviceError"
    /\ pc = "raised" => err # "none"
    /\ \A i \in 1..Len(results) :
          i < Len(results) => NoSpace(results[i])

C12_Step ==
    pc = "rsync" =>
        LET o == results'[Len(results')]
        IN  /\ Len(results') = Len(results) + 1
            /\ (pc' = "evict") <=>
                  (o.kind = "exit" /\ o.code = 11 /\ o.nospace)
            /\ (o.kind = "exit" /\ ~(o.code = 11 /\ o.nospace)) =>
                  /\ pc' = "raised"
                  /\ err' = "CalledProcessError"

C12_NoSpaceIffCode11AndMessage == [](C12_State) /\ [][C12_Step]_vars

C12_Witness ==
    /\ pc = "raised"
    /\ err = "CalledProcessError"
    /\ Len(results) = 2
    /\ results[1] = [kind |-> "exit", code |-> 11, nospace |-> TRUE]
    /\ results[2] = [kind |-> "exit", code |-> 23, nospace |-> TRUE]
    /\ Len(lists) = 1

\* C13 (as claimed): when snapshot() is called twice in a row with debug
\* false and the first transfer attempt of each call succeeds, whatever
\* the time between the two calls: while the second call transfers,
\* latest.snapshot links to the snapshot of the first call, which exists;
\* when the second call has returned, the two calls have different
\* timestamps, both snapshot directories exist, the second one is the
\* renamed staging directory of the second call, and latest.snapshot
\* links to it.
C13_Claim_TwoRunsTwoSnapshots ==
    (~debug /\ run = 2 /\ first.clean /\ first.fresh) =>
        /\ (pc = "rsync" /\ results = <<>>) =>
              /\ Dst.latest = first.date
              /\ first.date \in Dst.snaps
        /\ (pc = "done" /\ Len(results) = 1) =>
              /\ date # first.date
              /\ {first.date, date} \subseteq Dst.snaps
              /\ date \in Dst.made
              /\ Dst.latest = date

\* the destination root: the path part of the destination specifier
Root == _parse_path(dest).path

\* the path of an entry of the directory dir: dir/name, with the one
\* separator left out when dir is empty or ends with one
InDir(dir, name) ==
    IF dir = <<>> \/ dir[Len(dir)] = sep
    THEN dir \o name
    ELSE dir \o <<sep>> \o name

\* the call that moved the run on from the step it was at n steps ago
CallBack(n) == Strip(calls[Len(calls) - n].argv)

\* C14: with R the destination root and T the run's timestamp, the command
\* of the mv step is exactly mv R/incomplete.snapshot R/T.snapshot, the
\* commands of the relink are exactly rm -f R/latest.snapshot and
\* ln -s T.snapshot R/latest.snapshot (after the ssh prefix, if any); the
\* link target is the bare name T.snapshot, without a separator, and it is
\* the last component of the mv target.
C14_CommitCommandsExact ==
    LET T == <<ToString(date), ".snapshot">>
        mv == << <<"mv">>, InDir(Root, <<"incomplete.snapshot">>),
                 InDir(Root, T) >>
        rm == << <<"rm">>, <<"-f">>, InDir(Root, <<"latest.snapshot">>) >>
        ln == << <<"ln">>, <<"-s">>, T, InDir(Root, <<"latest.snapshot">>) >>
    IN  /\ pc = "rmlink" => CallBack(0) = mv
        /\ pc = "ln" => CallBack(1) = mv /\ CallBack(0) = rm
        /\ pc = "done" =>
              /\ CallBack(2) = mv /\ CallBack(1) = rm /\ CallBack(0) = ln
              /\ ~Contains(CallBack(0)[3], sep)
              /\ BaseName(CallBack(2)[3]) = CallBack(0)[3]
              /\ Count(calls, IsMv) = 1 /\ Count(calls, IsLn) = 1

C14_Witness ==
    /\ pc = "done"
    /\ dest = <<"host", ":", "bk">>
    /\ date = MaxTime
    /\ CallBack(0) = << <<"ln">>, <<"-s">>, <<ToString(MaxTime), ".snapshot">>,
                        <<"bk", sep, "latest.snapshot">> >>

\* a mv, rm or ln call: every call but the transfers
IsFileCommand(c) == ~IsRsync(c)

\* the ssh target of the destination: user@host, or host when there is no
\* user
SshTarget ==
    LET p == _parse_path(dest)
    IN  (IF p.user # None THEN p.user \o <<"@">> ELSE <<>>) \o p.host

\* C15 (as claimed): for a remote destination every mv, rm (of a snapshot
\* and of the link) and ln of a run is [ssh, target, ...command] with
\* target user@host, or host when there is no user, and the command names
\* paths under the path part of the destination only; for a local
\* destination no command starts with ssh.
C15_Claim_FileCommandsThroughSsh ==
    \A i \in 1..Len(calls) :
        IsFileCommand(calls[i]) =>
            LET argv == calls[i].argv
            IN  IF _is_remote(dest)
                THEN /\ argv[1] = <<"ssh">>
                     /\ argv[2] = SshTarget
                     /\ argv[3] \in {<<"mv">>, <<"rm">>, <<"ln">>}
                     /\ ~Contains(Last(argv), ":")
                     /\ SubSeq(Last(argv), 1, Len(Root)) = Root
                ELSE /\ argv[1] \in {<<"mv">>, <<"rm">>, <<"ln">>}
                     /\ \A j \in 1..Len(argv) : argv[j] # <<"ssh">>

\* the transfer commands called so far, in order
Transfers == SelectSeq(calls, IsRsync)

\* C16: on every transfer attempt the last argument of the command is the
\* staging path: for a remote destination user@host: (host: when there is
\* no user) followed by incomplete.snapshot under the text after the first
\* colon of the specifier, as given; for a local destination
\* incomplete.snapshot under an absolute path.  The argument before it is
\* the source (with its trailing separator).  All attempts of a run name
\* the same staging path, and its path part is what the mv moves.
C16_StagingPathLast ==
    LET given == IF _is_remote(dest) THEN AfterFirst(dest, ":") ELSE Root
        staging == InDir(given, <<"incomplete.snapshot">>)
    IN  /\ Len(Transfers) = Len(results)
        /\ \A i \in 1..Len(Transfers) :
              LET argv == Transfers[i].argv
              IN  /\ Len(argv) >= 3
                  /\ argv[Len(argv)] =
                        IF _is_remote(dest)
                        THEN SshTarget \o <<":">> \o staging
                        ELSE staging
                  /\ ~_is_remote(dest) => staging[1] = sep
                  /\ argv[Len(argv) - 1] \in {source, source \o <<sep>>}
                  /\ argv[Len(argv)] = Transfers[1].argv[Len(argv)]
        /\ \A i \in 1..Len(calls) :
              IsMv(calls[i]) => Strip(calls[i].argv)[2] = staging

C16_Witness ==
    /\ dest = <<"user", "@", "host", ":", sep, "bk">>
    /\ ~debug
    /\ pc = "rmlink"
    /\ Len(Transfers) = 2
    /\ Last(Transfers[2].argv) =
          <<"user", "@", "host", ":", sep, "bk", sep, "incomplete.snapshot">>
    /\ Strip(calls[Len(calls)].argv)[2] =
          <<sep, "bk", sep, "incomplete.snapshot">>

\* the number of separators a string ends with
RECURSIVE TrailingSeps(_)
TrailingSeps(str) ==
    IF Len(str) > 0 /\ str[Len(str)] = sep
    THEN 1 + TrailingSeps(SubSeq(str, 1, Len(str) - 1))
    ELSE 0

\* C17: for a source given with no or with one trailing separator (the
\* root "/" and remote sources included), the source argument of every
\* transfer command ends with exactly one separator: it is the source as
\* given when that ends with one, and the source as given followed by one
\* separator when it does not.
C17_SourceOneTrailingSep ==
    TrailingSeps(source) <= 1 =>
        \A i \in 1..Len(Transfers) :
            LET argv == Transfers[i].argv
                src == argv[Len(argv) - 1]
            IN  /\ TrailingSeps(src) = 1
                /\ src = IF TrailingSeps(source) = 1
                         THEN source ELSE source \o <<sep>>

C17_Witness ==
    /\ source = <<sep>>
    /\ Len(Transfers) = 2
    /\ Transfers[2].argv[Len(Transfers[2].argv) - 1] = <<sep>>

\* a --link-dest=VALUE argument
IsLinkDest(arg) == Len(arg) >= 1 /\ arg[1] = "--link-dest="

LinkDestLatest == <<"--link-dest=", "../latest.snapshot">>

\* C18 (as claimed): for every source, destination, debug setting and
\* list of extra flags, every transfer command has exactly one --link-dest
\* argument, and it is --link-dest=../latest.snapshot.
C18_Claim_ExactlyOneLinkDest ==
    \A i \in 1..Len(Transfers) :
        LET argv == Transfers[i].argv
        IN  /\ Count(argv, IsLinkDest) = 1
            /\ \A j \in 1..Len(argv) :
                  IsLinkDest(argv[j]) => argv[j] = LinkDestLatest

\* C18 (amended): every transfer command has exactly one --link-dest
\* argument of the program's own, --link-dest=../latest.snapshot, before
\* the caller's extra flags; the extra flags follow it as given, so the
\* command has one more --link-dest argument for each one among the extra
\* flags, and exactly one when there is none among them.
C18_OneLinkDestOfItsOwn ==
    \A i \in 1..Len(Transfers) :
        LET argv == Transfers[i].argv
            k == CHOOSE j \in 1..Len(argv) : argv[j] = LinkDestLatest
            own == SubSeq(argv, 1, Len(argv) - 2 - Len(extra_args)
                                     - (IF debug THEN 1 ELSE 0))
        IN  /\ \E j \in 1..Len(argv) : argv[j] = LinkDestLatest
            /\ Count(own, IsLinkDest) = 1
            /\ k <= Len(own)
            /\ SubSeq(argv, Len(own) + 1, Len(own) + Len(extra_args))
                  = extra_args
            /\ Count(argv, IsLinkDest) = 1 + Count(extra_args, IsLinkDest)
            /\ Count(extra_args, IsLinkDest) = 0 =>
                  Count(argv, IsLinkDest) = 1

C18_Witness ==
    /\ extra_args = << <<"--link-dest=", sep, "old">> >>
    /\ Len(Transfers) = 2
    /\ Count(Transfers[2].argv, IsLinkDest) = 2

\* the specifier has a colon before its first separator
ColonBeforeFirstSep(path) ==
    \E i \in 1..Len(path) :
        /\ path[i] = ":"
        /\ \A j \in 1..(i - 1) : path[j] # sep

\* C19 (as claimed): the destination is classified as remote if and only
\* if it has a colon before its first separator; a remote specifier
\* user@host:path yields exactly that user, host and path, so that they
\* make up the specifier again, and host:path yields no user; a local
\* specifier yields no user, no host and an absolute path with the home
\* directory expanded; a user is set only if a host is set.
C19_Claim_ParsePath ==
    LET p == _parse_path(dest)
    IN  /\ _is_remote(dest) <=> ColonBeforeFirstSep(dest)
        /\ p.host # None <=> ColonBeforeFirstSep(dest)
        /\ ColonBeforeFirstSep(dest) =>
              /\ (IF p.user # None THEN p.user \o <<"@">> ELSE <<>>)
                    \o p.host \o <<":">> \o p.path = dest
              /\ p.user = None <=> ~Contains(SplitFirst(dest, ":"), "@")
        /\ ~ColonBeforeFirstSep(dest) =>
              /\ p.user = None
              /\ p.host = None
              /\ Len(p.path) >= 1
              /\ p.path[1] = sep
              /\ ~Contains(p.path, "~")
        /\ p.user # None => p.host # None

\* C20 (as claimed): while a run transfers and evicts, latest.snapshot
\* links to what it linked to when the run began, and if that snapshot
\* existed then, it still exists: no eviction removes it, whatever
\* min_snapshots is and however many attempts fail for lack of space.
C20_Claim_BaselineKept ==
    pc \in {"rsync", "evict"} =>
        /\ Dst.latest = Dst0.latest
        /\ Dst0.latest \in Dst0.snaps => Dst.latest \in Dst.snaps

\* the paths of the snapshot directories of the directory d, oldest first
SnapshotPaths(d) ==
    [i \in 1..Cardinality(d.snaps) |->
        InDir(Root, SnapshotName(SortedSeq(d.snaps)[i]))]

\* C21 (as claimed): for a remote destination as for a local one, what is
\* listed after a no-space failure are the snapshot directories of the
\* destination, on the machine the destination is on: the listing does
\* not fail when the destination directory exists, the first list is the
\* snapshots the destination held when the run began, the retention check
\* counts them, and the first rm removes the oldest of them.
C21_Claim_ListsTheDestination ==
    /\ ( /\ pc = "raised" /\ err = "OSError"
          /\ Len(lists) < Len(results)
          /\ NoSpace(results[Len(results)]) ) => ~Dst.exists
    /\ Len(lists) >= 1 =>
          /\ lists[1] = SnapshotPaths(Dst0)
          /\ (Cardinality(Dst0.snaps) <= min_snapshots) =>
                (pc = "raised" /\ err = "NoMoreSnapshotsToRemoveError")
          /\ \A i \in 1..Len(calls) :
                (IsEvictRm(calls[i]) /\ Count(SubSeq(calls, 1, i), IsEvictRm) = 1)
                    => /\ EvictStamp(calls[i]) \in Dst0.snaps
                       /\ \A t \in Dst0.snaps : EvictStamp(calls[i]) <= t

\* the call of snapshot() the scheduler is at, as a record like peer
Me ==
    [pc |-> pc, err |-> err, date |-> date, calls |-> calls,
     results |-> results, lists |-> lists]

\* the call has not run a command yet
Idle(r) == r.pc = "rsync" /\ r.results = <<>>

\* the call is after its mv and before its return or its failure
Committing(r) == r.pc \in {"rmlink", "ln"}

\* what holds of a call x while no other call has run a command: the
\* staging directory it moves is the one its transfer completed, the
\* snapshot moved into place most recently is its own, and when it has
\* returned latest.snapshot links to that snapshot
AloneGood(x) ==
    /\ x.pc = "mv" => Dst.staging = "complete"
    /\ (Committing(x) \/ x.pc = "done") =>
          /\ Dst.last = x.date
          /\ x.date \in Dst.snaps
          /\ Dst.staging = "absent"
    /\ x.pc = "done" => Dst.latest = Dst.last

\* C22: two calls of snapshot() on one destination are not coordinated.
\* While only one of them has run commands, none of the states of the
\* hazard is reached: what it moves into place is its own completed
\* transfer, and when it has returned latest.snapshot links to the
\* snapshot moved into place most recently.  With both running, a call
\* moves the staging directory into place while the other is in its
\* transfer loop and has written to it (C22_CommitsUnderTransfer), and
\* both calls return with latest.snapshot linking to another snapshot than
\* the one moved into place most recently (C22_Witness).
C22_UncoordinatedRuns ==
    /\ Idle(peer) => AloneGood(Me)
    /\ Idle(Me) => AloneGood(peer)

C22_Witness ==
    /\ pc = "done" /\ peer.pc = "done"
    /\ date # peer.date
    /\ {date, peer.date} \subseteq Dst.made
    /\ Dst.last \in Dst.snaps
    /\ Dst.latest # Dst.last

C22_CommitsUnderTransfer ==
    /\ pc = "rmlink"
    /\ date \in Dst.made
    /\ peer.pc = "rsync"
    /\ Len(peer.results) >= 1
    /\ Len(peer.results) = Len(peer.lists)

\* C23 (as claimed): in a run, for every destination specifier, an empty
\* host part included, the destination of the transfer commands is in
\* remote form (a colon before its first separator) if and only if the
\* mv, rm and ln commands are wrapped in ssh.
C23_Claim_SameMachine ==
    \A i \in 1..Len(calls) : \A j \in 1..Len(calls) :
        (IsRsync(calls[i]) /\ IsFileCommand(calls[j])) =>
            (ColonBeforeFirstSep(Last(calls[i].argv))
                <=> calls[j].argv[1] = <<"ssh">>)

\* C24 (as claimed): a step that runs a command with debug false runs it
\* once, and either the command returns and the run goes on, or the run is
\* left with CalledProcessError (which _rsync() may turn into the no-space
\* retry), or it is left with NoSuchCommandError; no other error comes out
\* of running a command.
C24_ClaimStep ==
    (Len(calls') > Len(calls)) =>
        /\ Len(calls') = Len(calls) + 1
        /\ ~calls'[Len(calls')].debug =>
              \/ pc' \notin {"raised", "evict"} /\ err' = err
              \/ pc' = "evict" /\ err' = err
                    /\ results'[Len(results')].kind = "exit"
              \/ pc' = "raised"
                    /\ err' \in {"CalledProcessError", "NoSuchCommandError"}

C24_Claim_RunnerOutcomes == [][C24_ClaimStep]_vars

\* the whole name is YYYY-MM-DDTHH_MM_SS.snapshot with digits in the date
\* fields
IsSnapshotName(d) ==
    /\ Len(d) = 28
    /\ \A i \in {1, 2, 3, 4, 6, 7, 9, 10, 12, 13, 15, 16, 18, 19} :
          d[i] \in Digits
    /\ d[5] = "-" /\ d[8] = "-" /\ d[11] = "T"
    /\ d[14] = "_" /\ d[17] = "_"
    /\ SubSeq(d, 20, 28) = DotSnapshot

\* C25 (as claimed): after a listing, the list holds exactly the paths of
\* the entries that are directories and whose whole name is a snapshot
\* name, each once, in ascending order; incomplete.snapshot, latest.snapshot
\* and every other entry are left out, and the directory is as it was.
C25_ClaimState ==
    pc = "listed" =>
        LET out == lists[Len(lists)]
        IN  /\ {out[i] : i \in 1..Len(out)} =
                  {LsRoot \o <<"/">> \o e.name :
                      e \in {x \in entries :
                                x.isdir /\ IsSnapshotName(x.name)}}
            /\ \A i \in 1..Len(out) : \A j \in 1..Len(out) :
                  i < j => StrLess(out[i], out[j])

C25_Claim_ListerExact ==
    [](C25_ClaimState) /\ [][entries' = entries /\ fs' = fs]_vars

\* C26: every transfer command of a run is, in this order: rsync and its
\* twelve fixed flags, the caller's extra flags as given (each one, in the
\* caller's order, as often as given), then --dry-run exactly when debug is
\* set, then the source, then the staging destination, and nothing else;
\* every retry runs the same vector as the first attempt.
C26_TransferCommandOrder ==
    \A i \in 1..Len(Transfers) :
        LET argv == Transfers[i].argv
            nfixed == 13
            nextra == Len(extra_args)
            ndry == IF debug THEN 1 ELSE 0
        IN  /\ Len(argv) = nfixed + nextra + ndry + 2
            /\ argv[1] = <<"rsync">>
            /\ SubSeq(argv, 1, nfixed) =
                  << <<"rsync">>, <<"--archive">>, <<"--partial">>,
                     <<"--partial-dir=partially_transferred_files">>,
                     <<"--one-file-system">>, <<"--delete">>,
                     <<"--delete-excluded">>, <<"--itemize-changes">>,
                     LinkDestLatest, <<"--human-readable">>, <<"--quiet">>,
                     <<"--compress">>, <<"--fuzzy">> >>
            /\ SubSeq(argv, nfixed + 1, nfixed + nextra) = extra_args
            /\ debug <=> argv[nfixed + nextra + 1] = <<"--dry-run">>
            /\ argv[Len(argv) - 1] \in {source, source \o <<sep>>}
            /\ Last(argv[Len(argv)]) = "incomplete.snapshot"
            /\ argv = Transfers[1].argv

C26_Witness ==
    /\ debug
    /\ extra_args = << <<"-v">>, <<"--dry-run">>, <<"-v">> >>
    /\ Len(Transfers) = 2
    /\ SubSeq(Transfers[2].argv, 14, 17) =
          << <<"-v">>, <<"--dry-run">>, <<"-v">>, <<"--dry-run">> >>

\* the error kinds main() is to turn into a clean exit
KnownErrors ==
    {"CommandLineArgumentsError", "CalledProcessError",
     "NoSuchCommandError", "NoMoreSnapshotsToRemoveError"}

\* C27 (as claimed): when argument parsing or snapshot() raises invalid
\* command-line arguments, a failed external command, a missing external
\* command or no more snapshots to remove, main() ends the process by a
\* clean exit with a message and a non-zero status, never with an
\* unhandled exception.
C27_ClaimStep ==
    (pc = "raised" /\ err \in KnownErrors) => pc' = "exit_message"

C27_Claim_MainExitsCleanly ==
    [](err \in KnownErrors => pc # "traceback") /\ [][C27_ClaimStep]_vars

====
